---- MODULE Spec2Model ----
(***************************************************************************)
(* optuna.integration.skopt: SkoptSampler and _Optimizer.                  *)
(*                                                                         *)
(* A search space is a Python dict; it is modelled as the sequence of its  *)
(* items in iteration order, each item a record [name, distribution].      *)
(* Numbers are Python floats, modelled as binary floating point with a     *)
(* significand of Precision bits (binary64 has 53) and round-to-nearest,   *)
(* ties-to-even: a number x is held as the integer x * One, and every      *)
(* arithmetic result is rounded to the nearest representable value.  The   *)
(* small integers of the model are exact, as they are in binary64; 0.1 is  *)
(* not, as it is not in binary64.  The skopt backend is a recording fake:  *)
(* `backend` is the sequence of calls made on skopt.Optimizer during the   *)
(* current call, and the point its ask() answers is any point of the       *)
(* dimensions.                                                             *)
(***************************************************************************)
EXTENDS Integers, Sequences, FiniteSets, TLC

VARIABLES study, warn, pc, call, result, backend, warned

vars == <<study, warn, pc, call, result, backend, warned>>

\* Longest trial history drawn for a study.
MaxTrials == 2

-----------------------------------------------------------------------------
(* Python floats *)

\* The number 1.0: a float x is held as the integer x * One.
One == 128

\* Bits of the significand.
Precision == 4

Pow2(j) == 2 ^ j

\* The spacing of the representable values around n / d (n >= 0, d > 0).
Ulp(n, d) ==
    Pow2(CHOOSE j \in 0..12 :
            /\ n < Pow2(Precision + j) * d
            /\ \A i \in 0..(j - 1) : n >= Pow2(Precision + i) * d)

\* n / d (n >= 0, d > 0) rounded to the nearest representable value, ties to
\* the even significand.
RoundPos(n, d) ==
    LET u == Ulp(n, d)
        lo == n \div (d * u)
        twice == 2 * (n - lo * d * u)
    IN  IF twice < d * u THEN lo * u
        ELSE IF twice > d * u THEN (lo + 1) * u
        ELSE IF lo % 2 = 0 THEN lo * u ELSE (lo + 1) * u

Round(n, d) == IF n >= 0 THEN RoundPos(n, d) ELSE 0 - RoundPos(0 - n, d)

\* x + y, x - y, x * y and x // y on floats (y > 0 for //: Python's float
\* floor division is the floor of the exact quotient of the two floats).
fadd(x, y) == Round(x + y, 1)
fsub(x, y) == Round(x - y, 1)
fmul(x, y) == Round(x * y, One)
ffloordiv(x, y) == Round((x \div y) * One, 1)

\* The float literals n and n / 10.
Num(n) == Round(n * One, 1)
Dec(tenths) == Round(tenths * One, 10)

-----------------------------------------------------------------------------
(* Values of the model *)

Names == {"a", "b"}

\* Python's str ordering on the parameter names, as sorted() uses it.
NameRank(n) == IF n = "a" THEN 1 ELSE 2

Range(s) == {s[i] : i \in 1..Len(s)}

IndexOf(s, v) == CHOOSE i \in 1..Len(s) : s[i] = v

Dist(kind, low, high, q, choices) ==
    [kind |-> kind, low |-> low, high |-> high, q |-> q, choices |-> choices]

\* uniform [0, 8), loguniform [1, 8), int [3, 7], discrete {0, 0.1, .., 1.0},
\* categorical (7, 3), categorical (7,), int [3, 3], and a distribution of a
\* kind the sampler does not know.
UniformD      == Dist("UniformDistribution", Num(0), Num(8), 0, <<>>)
LogUniformD   == Dist("LogUniformDistribution", Num(1), Num(8), 0, <<>>)
IntUniformD   == Dist("IntUniformDistribution", Num(3), Num(7), 0, <<>>)
DiscreteD     == Dist("DiscreteUniformDistribution", Num(0), Num(1), Dec(1), <<>>)
CategoricalD  == Dist("CategoricalDistribution", 0, 0, 0, <<Num(7), Num(3)>>)
CategoricalS  == Dist("CategoricalDistribution", 0, 0, 0, <<Num(7)>>)
IntUniformS   == Dist("IntUniformDistribution", Num(3), Num(3), 0, <<>>)
OtherD        == Dist("OtherDistribution", Num(0), Num(4), 0, <<>>)

Distributions ==
    {UniformD, LogUniformD, IntUniformD, DiscreteD, CategoricalD, CategoricalS,
     IntUniformS, OtherD}

Item(n, d) == [name |-> n, distribution |-> d]

\* Every dict over Names with values in Distributions, in every iteration order.
SearchSpaces ==
    {<<>>}
    \cup {<<Item(n, d)>> : n \in Names, d \in Distributions}
    \cup {s \in {<<Item(n, d), Item(m, e)>> :
                     n \in Names, m \in Names, d \in Distributions, e \in Distributions} :
             s[1].name # s[2].name}

SpaceNames(space) == {space[i].name : i \in 1..Len(space)}

DistOf(space, n) == space[CHOOSE i \in 1..Len(space) : space[i].name = n].distribution

COMPLETE == "COMPLETE"
RUNNING  == "RUNNING"
MINIMIZE == "MINIMIZE"
MAXIMIZE == "MAXIMIZE"

\* FrozenTrial: params maps the names the trial suggested to external values;
\* value is <<>> for None and <<v>> for the objective v.
\* "a" was given 0.5 or 7.0, "b" 3.0.
ParamMaps ==
    { [nm \in S |-> IF nm = "a" THEN va ELSE Num(3)] :
         S \in (SUBSET Names) \ {{}}, va \in {Dec(5), Num(7)} }

\* The trials of the histories: completed ones with any of the parameter maps
\* and the objective 5.0, and an unfinished one that has suggested every name.
Trials ==
    { [state |-> COMPLETE, params |-> p, value |-> <<Num(5)>>] : p \in ParamMaps }
    \cup { [state |-> RUNNING, params |-> [nm \in Names |-> Num(3)], value |-> <<>>] }

Histories == UNION { [1..n -> Trials] : n \in 0..MaxTrials }

-----------------------------------------------------------------------------
(* optuna.distributions, as the sampler uses it *)

\* BaseDistribution.single
single(d) ==
    IF d.kind = "CategoricalDistribution" THEN Len(d.choices) = 1
    ELSE IF d.kind = "DiscreteUniformDistribution" THEN d.high - d.low < d.q
    ELSE d.low = d.high

\* CategoricalDistribution.to_internal_repr is choices.index(value), which
\* raises ValueError when the value is not among the choices.
to_internal_repr_raises(d, v) ==
    d.kind = "CategoricalDistribution" /\ v \notin Range(d.choices)

\* BaseDistribution.to_internal_repr: the index of a categorical choice
\* (0-based), the value itself otherwise.
to_internal_repr(d, v) ==
    IF d.kind = "CategoricalDistribution" THEN IndexOf(d.choices, v) - 1 ELSE v

\* BaseDistribution.to_external_repr
to_external_repr(d, v) ==
    IF d.kind = "CategoricalDistribution" THEN d.choices[v + 1] ELSE v

\* BaseDistribution._contains, on the internal representation
_contains(d, v) ==
    IF d.kind = "CategoricalDistribution" THEN 0 <= v /\ v < Len(d.choices)
    ELSE IF d.kind \in {"UniformDistribution", "LogUniformDistribution"}
         THEN IF d.low = d.high THEN v = d.low ELSE d.low <= v /\ v < d.high
    ELSE d.low <= v /\ v <= d.high

-----------------------------------------------------------------------------
(* SkoptSampler *)

\* Mutant of KeepsEntry: every single-valued entry is dropped, categorical or not.
KeepsEntry_nonsingle(d) ==
    ~single(d)

\* infer_relative_search_space: the product search space without its
\* single-valued non-categorical entries, in the product's iteration order.
KeepsEntry(d) ==
    ~(single(d) /\ d.kind # "CategoricalDistribution")

infer_relative_search_space(product) ==
    SelectSeq(product, LAMBDA item : KeepsEntry(item.distribution))

\* Mutant of warns_independent_sampling: any recorded trial counts, whatever its state.
warns_any_trial(warn_flag, trials) ==
    /\ warn_flag
    /\ Len(trials) >= 1

\* sample_independent: whether logger.warning is called.
warns_independent_sampling(warn_flag, trials) ==
    /\ warn_flag
    /\ Cardinality({i \in 1..Len(trials) : trials[i].state = COMPLETE}) >= 1

-----------------------------------------------------------------------------
(* _Optimizer *)

\* Mutant of sorted_items: the dict's own iteration order, unsorted.
sorted_items_unsorted(space) == space

\* sorted(self._search_space.items()): the items by ascending name.
sorted_items(space) ==
    [i \in 1..Len(space) |->
        space[CHOOSE j \in 1..Len(space) :
                 Cardinality({k \in 1..Len(space) :
                     NameRank(space[k].name) < NameRank(space[j].name)}) = i - 1]]

Max(x, y) == IF x >= y THEN x ELSE y
Min(x, y) == IF x <= y THEN x ELSE y

\* np.nextafter(high, float('-inf')): the largest representable value below
\* high (high > 0 here, or high = 0 with nothing below it in the model).
nextafter_down(high) ==
    IF high <= 0 THEN high
    ELSE ((high - 1) \div Ulp(high - 1, 1)) * Ulp(high - 1, 1)

Dim(type, low, high, prior, categories) ==
    [type |-> type, low |-> low, high |-> high, prior |-> prior,
     categories |-> categories]

SupportedKinds ==
    {"UniformDistribution", "LogUniformDistribution", "IntUniformDistribution",
     "DiscreteUniformDistribution", "CategoricalDistribution"}

\* The if/elif cascade of __init__ for one supported distribution.
dimension(d) ==
    CASE d.kind = "UniformDistribution" ->
            Dim("Real", d.low, Max(d.low, nextafter_down(d.high)), "uniform", <<>>)
      [] d.kind = "LogUniformDistribution" ->
            Dim("Real", d.low, Max(d.low, nextafter_down(d.high)), "log-uniform", <<>>)
      [] d.kind = "IntUniformDistribution" ->
            Dim("Integer", d.low, d.high, "", <<>>)
      [] d.kind = "DiscreteUniformDistribution" ->
            Dim("Integer", 0, ffloordiv(fsub(d.high, d.low), d.q), "", <<>>)
      [] d.kind = "CategoricalDistribution" ->
            Dim("Categorical", 0, 0, "", d.choices)

\* Mutant of Optimizer_init: a distribution of another kind is skipped.
Optimizer_init_skips(space) ==
    LET items == SelectSeq(sorted_items(space),
                           LAMBDA item : item.distribution.kind \in SupportedKinds)
    IN  [exc |-> "",
         dimensions |-> [i \in 1..Len(items) |-> dimension(items[i].distribution)]]

\* _Optimizer.__init__: the dimensions in sorted order, or NotImplementedError
\* at the first distribution of another kind, before skopt.Optimizer is built.
Optimizer_init(space) ==
    LET items == sorted_items(space)
        unsupported == {i \in 1..Len(items) :
                           items[i].distribution.kind \notin SupportedKinds}
    IN  IF unsupported # {}
        THEN [exc |-> "NotImplementedError", dimensions |-> <<>>]
        ELSE [exc |-> "",
              dimensions |-> [i \in 1..Len(items) |-> dimension(items[i].distribution)]]

\* One iteration of the loop of _is_compatible: "pass" goes on to the next item.
compatible_step(item, trial) ==
    IF item.name \notin DOMAIN trial.params THEN "False"
    ELSE IF to_internal_repr_raises(item.distribution, trial.params[item.name])
         THEN "ValueError"
    ELSE IF ~_contains(item.distribution,
                       to_internal_repr(item.distribution, trial.params[item.name]))
         THEN "False"
    ELSE "pass"

\* _is_compatible: "True", "False", or the exception that escapes it; the items
\* are visited in the dict's iteration order.
_is_compatible(space, trial) ==
    LET stops == {i \in 1..Len(space) : compatible_step(space[i], trial) # "pass"}
    IN  IF stops = {} THEN "True"
        ELSE compatible_step(space[CHOOSE i \in stops : \A j \in stops : i <= j], trial)

\* The rescaling of one recorded value in _complete_trial_to_skopt_observation.
encode_value(d, param_value) ==
    IF d.kind = "DiscreteUniformDistribution"
    THEN ffloordiv(fsub(param_value, d.low), d.q)
    ELSE param_value

\* Mutant of signed_value: the objective is never negated.
signed_value_unsigned(direction, value) == value

\* The sign given to the objective.
signed_value(direction, value) ==
    IF direction = MAXIMIZE THEN 0 - value ELSE value

\* _complete_trial_to_skopt_observation: the point in sorted order and the
\* signed objective, or the exception raised.
_complete_trial_to_skopt_observation(space, direction, trial) ==
    LET items == sorted_items(space)
    IN  IF \E i \in 1..Len(items) : items[i].name \notin DOMAIN trial.params
        THEN [exc |-> "KeyError", x |-> <<>>, y |-> 0]
        ELSE IF trial.value = <<>>
        THEN [exc |-> "AssertionError", x |-> <<>>, y |-> 0]
        ELSE [exc |-> "",
              x |-> [i \in 1..Len(items) |->
                        encode_value(items[i].distribution, trial.params[items[i].name])],
              y |-> signed_value(direction, trial.value[1])]

\* What the loop of tell does with one trial: "skip", "append" or an exception.
tell_step(space, direction, trial) ==
    IF trial.state # COMPLETE THEN "skip"
    ELSE IF _is_compatible(space, trial) = "False" THEN "skip"
    ELSE IF _is_compatible(space, trial) # "True" THEN _is_compatible(space, trial)
    ELSE IF _complete_trial_to_skopt_observation(space, direction, trial).exc # ""
         THEN _complete_trial_to_skopt_observation(space, direction, trial).exc
    ELSE "append"

\* _Optimizer.tell: the batch handed to skopt's tell, or the exception that
\* ends the loop before skopt's tell is reached.
tell(space, st) ==
    LET trials == st.trials
        raising == {i \in 1..Len(trials) :
                      tell_step(space, st.direction, trials[i]) \notin {"skip", "append"}}
        kept == SelectSeq(trials, LAMBDA t : tell_step(space, st.direction, t) = "append")
    IN  IF raising # {}
        THEN [exc |-> tell_step(space, st.direction,
                                trials[CHOOSE i \in raising : \A j \in raising : i <= j]),
              xs |-> <<>>, ys |-> <<>>]
        ELSE [exc |-> "",
              xs |-> [i \in 1..Len(kept) |->
                        _complete_trial_to_skopt_observation(space, st.direction, kept[i]).x],
              ys |-> [i \in 1..Len(kept) |->
                        _complete_trial_to_skopt_observation(space, st.direction, kept[i]).y]]

\* The rescaling of one proposed value in ask.
decode_value(d, value) ==
    IF d.kind = "DiscreteUniformDistribution"
    THEN fadd(fmul(value, d.q), d.low)
    ELSE value

\* Mutant of ask: the proposed values are returned without to_internal_repr.
ask_unconverted(space, param_values) ==
    LET items == sorted_items(space)
        n == Min(Len(items), Len(param_values))
    IN  [exc |-> "",
         params |-> [nm \in {items[i].name : i \in 1..n} |->
                       LET i == CHOOSE j \in 1..n : items[j].name = nm
                       IN  decode_value(items[i].distribution, param_values[i])]]

\* _Optimizer.ask on the point skopt proposes: zip pairs the sorted items with
\* the coordinates, and each value goes through to_internal_repr.
ask(space, param_values) ==
    LET items == sorted_items(space)
        n == Min(Len(items), Len(param_values))
        value(i) == decode_value(items[i].distribution, param_values[i])
    IN  IF \E i \in 1..n : to_internal_repr_raises(items[i].distribution, value(i))
        THEN [exc |-> "ValueError", params |-> <<>>]
        ELSE [exc |-> "",
              params |-> [nm \in {items[i].name : i \in 1..n} |->
                            LET i == CHOOSE j \in 1..n : items[j].name = nm
                            IN  to_internal_repr(items[i].distribution, value(i))]]

-----------------------------------------------------------------------------
(* The skopt backend, recorded *)

BackendCall(op, dimensions, xs, ys) ==
    [op |-> op, dimensions |-> dimensions, xs |-> xs, ys |-> ys]

\* The values skopt may propose for one dimension: the ends of a Real or
\* Integer dimension, any category of a Categorical one.
DimValues(dim) ==
    IF dim.type = "Categorical" THEN Range(dim.categories) ELSE {dim.low, dim.high}

\* The points skopt.Optimizer.ask() may return for these dimensions.
BackendPoints(dimensions) ==
    {p \in [1..Len(dimensions) -> UNION {DimValues(dimensions[i]) : i \in 1..Len(dimensions)}] :
        \A i \in 1..Len(dimensions) : p[i] \in DimValues(dimensions[i])}

Returned(value) == [status |-> "return", exc |-> "", value |-> value]
Raised(exc)     == [status |-> "raise", exc |-> exc, value |-> <<>>]
NoResult        == [status |-> "none", exc |-> "", value |-> <<>>]
NoCall          == [op |-> "none", space |-> <<>>, point |-> <<>>]

\* The three statements of sample_relative after its guard, with skopt
\* answering `point` to ask(): the outcome and the calls made on the backend.
run_optimizer(space, st, point) ==
    LET optimizer == Optimizer_init(space)
        constructed == <<BackendCall("construct", optimizer.dimensions, <<>>, <<>>)>>
        told == tell(space, st)
        asked == ask(space, point)
    IN  IF optimizer.exc # ""
        THEN [result |-> Raised(optimizer.exc), backend |-> <<>>]
        ELSE IF told.exc # ""
        THEN [result |-> Raised(told.exc), backend |-> constructed]
        ELSE IF asked.exc # ""
        THEN [result |-> Raised(asked.exc),
              backend |-> constructed
                          \o <<BackendCall("tell", <<>>, told.xs, told.ys),
                               BackendCall("ask", <<>>, <<>>, <<>>)>>]
        ELSE [result |-> Returned(asked.params),
              backend |-> constructed
                          \o <<BackendCall("tell", <<>>, told.xs, told.ys),
                               BackendCall("ask", <<>>, <<>>, <<>>)>>]

\* Mutant of sample_relative: no early return for an empty search space.
sample_relative_unguarded(space, st, point) ==
    run_optimizer(space, st, point)

\* SkoptSampler.sample_relative: nothing is built for an empty search space.
sample_relative(space, st, point) ==
    IF Len(space) = 0
    THEN [result |-> Returned(<<>>), backend |-> <<>>]
    ELSE run_optimizer(space, st, point)

\* The points the backend may answer in a call on `space`: those of the
\* dimensions built, or none to choose when the call never reaches ask().
ScriptedPoints(space, st) ==
    IF Len(space) = 0 \/ Optimizer_init(space).exc # "" THEN {<<>>}
    ELSE IF tell(space, st).exc # "" THEN {<<>>}
    ELSE BackendPoints(Optimizer_init(space).dimensions)

\* What the independent sampler may return.
FallbackValues == {Num(3), Num(7)}

-----------------------------------------------------------------------------
(* The state machine: one trial of a study asks the sampler for its space, *)
(* then for the relative parameters, or for one independent parameter.     *)

Init ==
    /\ study \in [trials : Histories, direction : {MINIMIZE, MAXIMIZE}]
    /\ warn \in BOOLEAN
    /\ pc = "idle"
    /\ call = NoCall
    /\ result = NoResult
    /\ backend = <<>>
    /\ warned = FALSE

InferRelativeSearchSpace ==
    /\ pc = "idle"
    /\ \E product \in SearchSpaces :
          /\ call' = [op |-> "infer_relative_search_space", space |-> product,
                      point |-> <<>>]
          /\ result' = Returned(infer_relative_search_space(product))
    /\ pc' = "inferred"
    /\ UNCHANGED <<study, warn, backend, warned>>

SampleRelative ==
    /\ pc = "inferred"
    /\ \E point \in ScriptedPoints(result.value, study) :
          LET outcome == sample_relative(result.value, study, point)
          IN  /\ call' = [op |-> "sample_relative", space |-> result.value,
                          point |-> point]
              /\ result' = outcome.result
              /\ backend' = outcome.backend
    /\ pc' = "done"
    /\ UNCHANGED <<study, warn, warned>>

SampleIndependent ==
    /\ pc = "idle"
    /\ \E nm \in Names, d \in {UniformD, CategoricalD}, v \in FallbackValues :
          /\ call' = [op |-> "sample_independent", space |-> <<Item(nm, d)>>,
                      point |-> <<v>>]
          /\ result' = Returned(v)
    /\ warned' = warns_independent_sampling(warn, study.trials)
    /\ pc' = "done"
    /\ UNCHANGED <<study, warn, backend>>

\* The call returns to the trial; the _Optimizer it built is discarded.
Return ==
    /\ pc = "done"
    /\ pc' = "idle"
    /\ call' = NoCall
    /\ result' = NoResult
    /\ backend' = <<>>
    /\ warned' = FALSE
    /\ UNCHANGED <<study, warn>>

Next ==
    \/ InferRelativeSearchSpace
    \/ SampleRelative
    \/ SampleIndependent
    \/ Return

Spec == Init /\ [][Next]_vars

-----------------------------------------------------------------------------
(* What the claims speak of *)

\* A sample_relative call has ended, by return or by exception.
RelativeDone == pc = "done" /\ call.op = "sample_relative"

\* The backend calls of the current call, by name.
BackendOps == [i \in 1..Len(backend) |-> backend[i].op]

IsPrefix(s, t) == Len(s) <= Len(t) /\ \A i \in 1..Len(s) : s[i] = t[i]

\* The name at position i of the lexicographic order of the space's names.
NameAt(space, i) ==
    CHOOSE nm \in SpaceNames(space) :
        Cardinality({m \in SpaceNames(space) : NameRank(m) < NameRank(nm)}) = i - 1

\* "The value is contained in the distribution", on external values.
ValueContained(d, v) ==
    IF d.kind = "CategoricalDistribution" THEN v \in Range(d.choices)
    ELSE IF d.kind \in {"UniformDistribution", "LogUniformDistribution"}
         THEN (d.low <= v /\ v < d.high) \/ (d.low = d.high /\ v = d.low)
    ELSE d.low <= v /\ v <= d.high

TrialCompatible(space, trial) ==
    \A i \in 1..Len(space) :
        /\ space[i].name \in DOMAIN trial.params
        /\ ValueContained(space[i].distribution, trial.params[space[i].name])

\* The completed, compatible trials of the study, in history order.
ReplayedTrials(space, st) ==
    SelectSeq(st.trials, LAMBDA t : t.state = COMPLETE /\ TrialCompatible(space, t))

\* The batch handed to the backend's tell, when tell was reached.
ToldBatch == backend[2]
Told == Len(backend) >= 2 /\ backend[2].op = "tell"

\* C1: every replay feeds the backend one observation for exactly the trials
\* that are COMPLETE and compatible with the space, in history order, and
\* nothing for any other trial.
C1_ReplayFeedsCompatibleTrials ==
    (RelativeDone /\ Len(backend) >= 1) =>
        /\ Told
        /\ Len(ToldBatch.xs) = Len(ReplayedTrials(call.space, study))
        /\ Len(ToldBatch.ys) = Len(ReplayedTrials(call.space, study))
        /\ \A j \in 1..Len(ReplayedTrials(call.space, study)) :
              LET t == ReplayedTrials(call.space, study)[j]
              IN  /\ ToldBatch.xs[j] =
                        [i \in 1..Len(call.space) |->
                            encode_value(DistOf(call.space, NameAt(call.space, i)),
                                         t.params[NameAt(call.space, i)])]
                  /\ ToldBatch.ys[j] = signed_value(study.direction, t.value[1])

\* C2: a completed trial that lacks a parameter of the space or whose value
\* lies outside the distribution, of whatever kind, is excluded silently: the
\* compatibility check answers false and replay raises nothing.
C2_IncompatibleExcludedSilently ==
    (RelativeDone /\ Len(backend) >= 1) =>
        \A k \in 1..Len(study.trials) :
            (/\ study.trials[k].state = COMPLETE
             /\ ~TrialCompatible(call.space, study.trials[k]))
            => /\ _is_compatible(call.space, study.trials[k]) = "False"
               /\ result.status = "return"
               /\ Told

\* C3, as claimed: the proposal maps each name of the space to the external
\* value of its coordinate (rescaled by step and low for a DiscreteStepped
\* parameter), for a categorical parameter the choice itself.
C3_AskReturnsExternalValues ==
    (RelativeDone /\ result.status = "return") =>
        /\ DOMAIN result.value = SpaceNames(call.space)
        /\ \A i \in 1..Len(call.space) :
              LET nm == NameAt(call.space, i)
                  d == DistOf(call.space, nm)
              IN  result.value[nm] = decode_value(d, call.point[i])

\* C3, amended: the proposal maps each name of the space to the internal
\* representation of its coordinate: for a categorical parameter the index of
\* the proposed choice among the choices, for a DiscreteStepped one the
\* float k * step + low, the coordinate itself otherwise.
C3_AskReturnsInternalValues ==
    (RelativeDone /\ result.status = "return") =>
        /\ DOMAIN result.value = SpaceNames(call.space)
        /\ \A i \in 1..Len(call.space) :
              LET nm == NameAt(call.space, i)
                  d == DistOf(call.space, nm)
              IN  IF d.kind = "CategoricalDistribution"
                  THEN /\ result.value[nm] \in 0..(Len(d.choices) - 1)
                       /\ to_external_repr(d, result.value[nm]) = call.point[i]
                  ELSE result.value[nm] = decode_value(d, call.point[i])

C3_Witness ==
    /\ RelativeDone /\ result.status = "return"
    /\ \E i \in 1..Len(call.space) :
          /\ call.space[i].distribution = CategoricalD
          /\ result.value[call.space[i].name] = 1
    /\ Num(3) \in Range(call.point)

\* C4: a DiscreteStepped{low, high, step} parameter has the backend dimension
\* Integer [0, count] with count = floor((high - low) / step); replay encodes
\* the grid value low + k * step, the value propose decodes k to, as k itself
\* for every k in 0..count, and propose decodes k within [low, high].
C4_DiscreteRoundTrip ==
    (RelativeDone /\ Len(backend) >= 1) =>
        \A i \in 1..Len(call.space) :
            LET nm == NameAt(call.space, i)
                d == DistOf(call.space, nm)
                dim == backend[1].dimensions[i]
                count == dim.high \div One
            IN  d.kind = "DiscreteUniformDistribution" =>
                  /\ dim.type = "Integer" /\ dim.low = 0 /\ dim.high = Num(count)
                  /\ count * d.q <= d.high - d.low
                  /\ d.high - d.low < (count + 1) * d.q
                  /\ Told =>
                        \A j \in 1..Len(ToldBatch.xs) : \A k \in 0..count :
                            ReplayedTrials(call.space, study)[j].params[nm]
                                  = decode_value(d, Num(k))
                            => ToldBatch.xs[j][i] = Num(k)
                  /\ result.status = "return" =>
                        /\ result.value[nm] = decode_value(d, call.point[i])
                        /\ d.low <= result.value[nm] /\ result.value[nm] <= d.high

\* C5: the positional order is the lexicographic order of the names in build,
\* replay and propose alike: the i-th dimension, the i-th coordinate of every
\* replayed point and the i-th coordinate of the proposed point all belong to
\* the i-th name, and are converted with that name's distribution.
C5_LexicographicOrder ==
    (RelativeDone /\ Len(backend) >= 1) =>
        \A i \in 1..Len(call.space) :
            LET nm == NameAt(call.space, i)
                d == DistOf(call.space, nm)
            IN  /\ Len(backend[1].dimensions) = Len(call.space)
                /\ backend[1].dimensions[i] = dimension(d)
                /\ Told =>
                      \A j \in 1..Len(ToldBatch.xs) :
                          /\ Len(ToldBatch.xs[j]) = Len(call.space)
                          /\ ToldBatch.xs[j][i] =
                                encode_value(d, ReplayedTrials(call.space, study)[j].params[nm])
                /\ result.status = "return" =>
                      result.value[nm] = to_internal_repr(d, decode_value(d, call.point[i]))

C5_Witness ==
    /\ RelativeDone /\ result.status = "return" /\ Told
    /\ call.space = <<Item("b", CategoricalD), Item("a", UniformD)>>
    /\ backend[1].dimensions[1].type = "Real"
    /\ backend[1].dimensions[2].type = "Categorical"
    /\ ToldBatch.xs = <<<<Dec(5), Num(3)>>>>
    /\ call.point = <<Num(0), Num(7)>>
    /\ result.value["a"] = Num(0) /\ result.value["b"] = 0

\* C6: the objective fed for a replayed trial is the trial's value, negated
\* when the study maximizes and unchanged when it minimizes.
C6_SignedObjective ==
    (RelativeDone /\ Told) =>
        /\ Len(ToldBatch.ys) = Len(ReplayedTrials(call.space, study))
        /\ \A j \in 1..Len(ToldBatch.ys) :
              LET v == ReplayedTrials(call.space, study)[j].value[1]
              IN  /\ study.direction = MAXIMIZE => ToldBatch.ys[j] = 0 - v
                  /\ study.direction = MINIMIZE => ToldBatch.ys[j] = v

C6_Witness ==
    /\ RelativeDone /\ Told
    /\ study.direction = MAXIMIZE
    /\ Len(study.trials) = 1 /\ study.trials[1].value = <<Num(5)>>
    /\ ToldBatch.ys = <<0 - Num(5)>>

\* C7, as claimed: a sample_relative call makes no backend call and returns
\* the empty mapping when the space is empty, and otherwise makes exactly
\* construct, tell (with the whole batch), ask, in this order.
C7_ConstructTellAskAlways ==
    RelativeDone =>
        IF Len(call.space) = 0
        THEN backend = <<>> /\ result = Returned(<<>>)
        ELSE /\ BackendOps = <<"construct", "tell", "ask">>
             /\ Len(ToldBatch.xs) = Len(ReplayedTrials(call.space, study))

\* C7, amended: a sample_relative call makes no backend call and returns the
\* empty mapping when the space is empty; otherwise its backend calls are a
\* prefix of construct, tell (with the whole batch), ask, each made at most
\* once and in this order, and all three are made exactly when the call
\* returns a proposal: a call that raises stops the sequence where it raises,
\* before construct for an unsupported distribution.
C7_CallSequence ==
    RelativeDone =>
        IF Len(call.space) = 0
        THEN backend = <<>> /\ result = Returned(<<>>)
        ELSE /\ IsPrefix(BackendOps, <<"construct", "tell", "ask">>)
             /\ (BackendOps = <<"construct", "tell", "ask">>) <=> (result.status = "return")
             /\ result.exc = "NotImplementedError" => backend = <<>>
             /\ Told => /\ Len(ToldBatch.xs) = Len(ReplayedTrials(call.space, study))
                        /\ Len(ToldBatch.ys) = Len(ToldBatch.xs)

C7_Witness ==
    /\ RelativeDone /\ result.status = "return"
    /\ Len(call.space) = 2
    /\ BackendOps = <<"construct", "tell", "ask">>
    /\ Len(ToldBatch.xs) = 2

\* C8: infer_relative_search_space returns the entries of the product search
\* space except those that are single-valued and not categorical: single-valued
\* categorical entries and all multi-valued entries stay, unchanged, and an
\* empty product gives an empty space.
C8_JointSpace ==
    (pc = "inferred" /\ call.op = "infer_relative_search_space") =>
        /\ result.status = "return"
        /\ \A item \in Range(call.space) :
              item \in Range(result.value) <=>
                 ~(single(item.distribution)
                   /\ item.distribution.kind # "CategoricalDistribution")
        /\ Range(result.value) \subseteq Range(call.space)
        /\ Len(result.value) = Cardinality(Range(result.value))
        /\ call.space = <<>> => result.value = <<>>

C8_Witness ==
    /\ pc = "inferred" /\ call.op = "infer_relative_search_space"
    /\ call.space = <<Item("a", CategoricalS), Item("b", IntUniformS)>>
    /\ result.value = <<Item("a", CategoricalS)>>

\* C9: sample_independent returns the value of the independent sampler, and
\* warns exactly when warn_independent_sampling is set and the study has at
\* least one COMPLETE trial.
C9_IndependentWarning ==
    (pc = "done" /\ call.op = "sample_independent") =>
        /\ result = Returned(call.point[1])
        /\ warned <=> (warn /\ \E k \in 1..Len(study.trials) :
                                  study.trials[k].state = COMPLETE)

C9_Witness ==
    /\ pc = "done" /\ call.op = "sample_independent"
    /\ warn /\ ~warned
    /\ Len(study.trials) >= 1

\* C10: a space holding a distribution of a kind other than the five supported
\* ones makes sample_relative raise NotImplementedError, wherever the entry is
\* in the name order, and no backend optimizer is constructed, told or asked.
C10_UnsupportedDistribution ==
    (/\ RelativeDone
     /\ \E i \in 1..Len(call.space) :
           call.space[i].distribution.kind \notin SupportedKinds)
    => /\ result = Raised("NotImplementedError")
       /\ backend = <<>>

C10_Witness ==
    /\ RelativeDone
    /\ Len(call.space) = 2
    /\ DistOf(call.space, "a") = IntUniformD
    /\ DistOf(call.space, "b") = OtherD
    /\ result = Raised("NotImplementedError")
    /\ backend = <<>>

====
